---- MODULE Spec2Model ----
(***************************************************************************)
(* Model of the local API of TenisApp.jsx (createApi, lines 504-812): the  *)
(* reservation / payment engine of the tennis-court booking application.   *)
(*                                                                         *)
(* `store' is the React state held by App (useState, line 364): every      *)
(* commit(mutator) applies its mutator to the latest value of it.  `db' is *)
(* the snapshot the api object in use was built from (useMemo, line 379):  *)
(* every read the api functions make outside a commit reads `db', and the  *)
(* action Render replaces it by the store.  Identifiers made by uid() are  *)
(* modelled by their position in the collection they are pushed to, and    *)
(* the timestamps (nowISOTime) and the free-text audit detail are left out.*)
(***************************************************************************)
EXTENDS Integers, Sequences, FiniteSets, TLC

VARIABLES
    store,    \* the state held by App: latest committed value
    db,       \* the snapshot captured by the api object in use
    mpCalls,  \* payWithMercadoPago calls suspended on the gateway delay
    regCalls, \* register calls suspended on the membership lookup
    last      \* outcome of the most recent api call that has returned

vars == <<store, db, mpCalls, regCalls, last>>

NULL == "null"

\* ------------------------------------------------------------------ bounds
\* the audit log holds at most MaxAudit entries: no call is started that
\* would write beyond it
MaxAudit == 7

\* ------------------------------------------------------------- the domain
Today == 0
MaxAdvanceDays == 7

CourtIds == {"c1", "c2"}
SLOT_TIMES == {"08:00", "09:00"}
Dates == {Today}

RES_STATUS ==
    [PENDING_PAYMENT |-> "Pendiente de pago", CONFIRMED |-> "Confirmada",
     CANCELLED |-> "Cancelada", NO_SHOW |-> "No presentacion"]

PAY_STATUS ==
    [PENDING |-> "Pendiente", APPROVED |-> "Aprobado", REJECTED |-> "Rechazado",
     REFUNDED_PARTIAL |-> "Reembolsado (parcial)"]

NOTIF_CHANNELS == <<"Email", "WhatsApp Business">>

APP_CONFIG_DEFAULT ==
    [requireEmailValidation |-> TRUE, requirePhoneValidation |-> TRUE,
     priceSocio |-> 0, priceNoSocio |-> 8000]

COURTS_DEFAULT == [c \in CourtIds |-> TRUE]

\* ---------------------------------------------------------------- helpers
\* Array.prototype.find on a sequence: the first element satisfying the test
First(S) == CHOOSE i \in S : \A j \in S : i <= j

\* position of the user with this id, 0 when there is none
findUser(st, id) ==
    LET S == {i \in DOMAIN st.users : st.users[i].id = id}
    IN  IF S = {} THEN 0 ELSE First(S)

\* position of the reservation / of its payment, 0 when there is none
findReservation(st, reservationId) ==
    LET S == {i \in DOMAIN st.reservations : st.reservations[i].id = reservationId}
    IN  IF S = {} THEN 0 ELSE First(S)

findPayment(st, reservationId) ==
    LET S == {i \in DOMAIN st.payments : st.payments[i].reservationId = reservationId}
    IN  IF S = {} THEN 0 ELSE First(S)

\* the half truncated instead of rounded
RoundHalfDown(amount) == amount \div 2

\* Math.round(amount * 0.5) for a non-negative integer amount: the floor of
\* amount / 2 + 1/2
RoundHalf(amount) == (amount + 1) \div 2

\* ------------------------------------------------- audit and notifications
audit(st, by, action) ==
    [st EXCEPT !.audit = <<[by |-> by, action |-> action]>> \o @]

\* the earlier notifications of the same event to the same recipient dropped
notifyLatestOnly(st, event, to, ref) ==
    [st EXCEPT !.notifications =
        <<[channel |-> NOTIF_CHANNELS[1], to |-> to, event |-> event, ref |-> ref],
          [channel |-> NOTIF_CHANNELS[2], to |-> to, event |-> event, ref |-> ref]>>
        \o SelectSeq(@, LAMBDA n : n.to # to \/ n.event # event)]

notify(st, event, to, ref) ==
    [st EXCEPT !.notifications =
        <<[channel |-> NOTIF_CHANNELS[1], to |-> to, event |-> event, ref |-> ref],
          [channel |-> NOTIF_CHANNELS[2], to |-> to, event |-> event, ref |-> ref]>> \o @]

\* the recipient the payment / cancel / no-show functions look up in their
\* own snapshot: the owner of the reservation, when both are in it
ownerEmail(snap, reservationId) ==
    LET i == findReservation(snap, reservationId)
    IN  IF i = 0 THEN NULL
        ELSE LET u == findUser(snap, snap.reservations[i].userId)
             IN  IF u = 0 THEN NULL ELSE snap.users[u].email

notifyOwner(st, snap, event, reservationId) ==
    LET to == ownerEmail(snap, reservationId)
    IN  IF to = NULL THEN st ELSE notify(st, event, to, reservationId)

\* ------------------------------------------------------------ membership
DigitValue ==
    [c \in {"0", "1", "2", "3", "4", "5", "6", "7", "8", "9"} |->
        CASE c = "0" -> 0 [] c = "1" -> 1 [] c = "2" -> 2 [] c = "3" -> 3
          [] c = "4" -> 4 [] c = "5" -> 5 [] c = "6" -> 6 [] c = "7" -> 7
          [] c = "8" -> 8 [] c = "9" -> 9]

\* a DNI is the sequence of its characters; the member flag is the parity of
\* the last one, false when it is no digit
validateSocioByDNI(dni) ==
    IF Len(dni) = 0 THEN TRUE   \* Number("") is 0
    ELSE LET c == dni[Len(dni)]
         IN  c \in DOMAIN DigitValue /\ DigitValue[c] % 2 = 0

\* ---------------------------------------------------------------- strings
\* the strings the register and login forms are given, as their characters
KnownStrings ==
    {"ana@mail.com",
     " Ana@Mail.com",
     "beto@mail.com",
     "beto.mail.com",
     "admin@edlp.com",
     "221-555-0001",
     "221-555-0002",
     "",
     "11-0000-0000",
     "abc123",
     "Abc123!",
     "Ab12!",
     "abc123!",
     "Abc1234",
     "admin"}

CharsOf(s) ==
    CASE s = "ana@mail.com" -> <<"a", "n", "a", "@", "m", "a", "i", "l", ".", "c", "o", "m">>
      [] s = " Ana@Mail.com" -> <<" ", "A", "n", "a", "@", "M", "a", "i", "l", ".", "c", "o", "m">>
      [] s = "beto@mail.com" -> <<"b", "e", "t", "o", "@", "m", "a", "i", "l", ".", "c", "o", "m">>
      [] s = "beto.mail.com" -> <<"b", "e", "t", "o", ".", "m", "a", "i", "l", ".", "c", "o", "m">>
      [] s = "admin@edlp.com" -> <<"a", "d", "m", "i", "n", "@", "e", "d", "l", "p", ".", "c", "o", "m">>
      [] s = "221-555-0001" -> <<"2", "2", "1", "-", "5", "5", "5", "-", "0", "0", "0", "1">>
      [] s = "221-555-0002" -> <<"2", "2", "1", "-", "5", "5", "5", "-", "0", "0", "0", "2">>
      [] s = "" -> <<>>
      [] s = "11-0000-0000" -> <<"1", "1", "-", "0", "0", "0", "0", "-", "0", "0", "0", "0">>
      [] s = "abc123" -> <<"a", "b", "c", "1", "2", "3">>
      [] s = "Abc123!" -> <<"A", "b", "c", "1", "2", "3", "!">>
      [] s = "Ab12!" -> <<"A", "b", "1", "2", "!">>
      [] s = "abc123!" -> <<"a", "b", "c", "1", "2", "3", "!">>
      [] s = "Abc1234" -> <<"A", "b", "c", "1", "2", "3", "4">>
      [] s = "admin" -> <<"a", "d", "m", "i", "n">>

StringOf(chars) == CHOOSE s \in KnownStrings : CharsOf(s) = chars

UpperCase ==
    {"A", "B", "C", "D", "E", "F", "G", "H", "I", "J", "K", "L", "M",
     "N", "O", "P", "Q", "R", "S", "T", "U", "V", "W", "X", "Y", "Z"}
LowerCase ==
    {"a", "b", "c", "d", "e", "f", "g", "h", "i", "j", "k", "l", "m",
     "n", "o", "p", "q", "r", "s", "t", "u", "v", "w", "x", "y", "z"}

LowerOf(c) ==
    CASE c = "A" -> "a"
          [] c = "B" -> "b"
          [] c = "C" -> "c"
          [] c = "D" -> "d"
          [] c = "E" -> "e"
          [] c = "F" -> "f"
          [] c = "G" -> "g"
          [] c = "H" -> "h"
          [] c = "I" -> "i"
          [] c = "J" -> "j"
          [] c = "K" -> "k"
          [] c = "L" -> "l"
          [] c = "M" -> "m"
          [] c = "N" -> "n"
          [] c = "O" -> "o"
          [] c = "P" -> "p"
          [] c = "Q" -> "q"
          [] c = "R" -> "r"
          [] c = "S" -> "s"
          [] c = "T" -> "t"
          [] c = "U" -> "u"
          [] c = "V" -> "v"
          [] c = "W" -> "w"
          [] c = "X" -> "x"
          [] c = "Y" -> "y"
          [] c = "Z" -> "z"
          [] OTHER -> c

toLowerCase(chars) == [i \in DOMAIN chars |-> LowerOf(chars[i])]

RECURSIVE trimStart(_)
trimStart(chars) ==
    IF chars # <<>> /\ Head(chars) = " " THEN trimStart(Tail(chars)) ELSE chars

RECURSIVE trimEnd(_)
trimEnd(chars) ==
    IF chars # <<>> /\ chars[Len(chars)] = " "
    THEN trimEnd(SubSeq(chars, 1, Len(chars) - 1))
    ELSE chars

trim(chars) == trimEnd(trimStart(chars))

includes(chars, c) == \E i \in DOMAIN chars : chars[i] = c

\* a password policy that asks for no symbol
passRegexTestNoSymbol(chars) ==
    /\ Len(chars) >= 6
    /\ \E i \in DOMAIN chars : chars[i] \in UpperCase

\* /^(?=.*[A-Z])(?=.*[^A-Za-z0-9]).{6,}$/ on the characters of the password
passRegexTest(chars) ==
    /\ Len(chars) >= 6
    /\ \E i \in DOMAIN chars : chars[i] \in UpperCase
    /\ \E i \in DOMAIN chars : chars[i] \notin UpperCase \cup LowerCase \cup DOMAIN DigitValue

\* ----------------------------------------------------------- the mutators
\* each is the function a commit() call applies to the latest store
\* the user pushed with the e-mail already validated
registerMutatorValidated(st, email, phone, dni, userType, pass) ==
    [st EXCEPT !.users = Append(@,
        [id |-> Len(st.users) + 1, role |-> "user", email |-> email, phone |-> phone,
         dni |-> dni, userType |-> userType, passwordHash |-> pass,
         isEmailValidated |-> TRUE, isPhoneValidated |-> FALSE])]

registerMutator(st, email, phone, dni, userType, pass) ==
    [st EXCEPT !.users = Append(@,
        [id |-> Len(st.users) + 1, role |-> "user", email |-> email, phone |-> phone,
         dni |-> dni, userType |-> userType, passwordHash |-> pass,
         isEmailValidated |-> FALSE, isPhoneValidated |-> FALSE])]

\* flags is a record holding emailOk, phoneOk, both or none
validateAccountMutator(st, by, flags) ==
    LET u == findUser(st, by)
    IN  IF u = 0 THEN st
        ELSE [st EXCEPT !.users[u] =
                [@ EXCEPT !.isEmailValidated =
                              IF "emailOk" \in DOMAIN flags THEN flags.emailOk ELSE @,
                          !.isPhoneValidated =
                              IF "phoneOk" \in DOMAIN flags THEN flags.phoneOk ELSE @]]

\* the patch applied, and every reservation and payment re-priced with it
setConfigRepricing(st, patch) ==
    LET cfg == [k \in DOMAIN st.config |->
                   IF k \in DOMAIN patch THEN patch[k] ELSE st.config[k]]
        priceOf(r) ==
            LET u == findUser(st, r.userId)
            IN  IF u # 0 /\ st.users[u].userType = "Socio" THEN cfg.priceSocio
                ELSE cfg.priceNoSocio
    IN  [st EXCEPT
            !.config = cfg,
            !.reservations =
                [i \in DOMAIN st.reservations |->
                    [st.reservations[i] EXCEPT !.price = priceOf(st.reservations[i])]],
            !.payments =
                [i \in DOMAIN st.payments |->
                    [st.payments[i] EXCEPT !.amount = priceOf(st.reservations[i])]]]

setConfigMutator(st, patch) ==
    [st EXCEPT !.config =
        [k \in DOMAIN st.config |-> IF k \in DOMAIN patch THEN patch[k] ELSE st.config[k]]]

\* the flag set, and the reservations of a deactivated court cancelled
setCourtActiveCancelling(st, courtId, isActive) ==
    IF courtId \in DOMAIN st.courts
    THEN [st EXCEPT
            !.courts[courtId] = isActive,
            !.reservations =
                [i \in DOMAIN st.reservations |->
                    IF ~isActive /\ st.reservations[i].courtId = courtId
                    THEN [st.reservations[i] EXCEPT !.status = RES_STATUS.CANCELLED]
                    ELSE st.reservations[i]]]
    ELSE st

setCourtActiveMutator(st, courtId, isActive) ==
    IF courtId \in DOMAIN st.courts
    THEN [st EXCEPT !.courts[courtId] = isActive]
    ELSE st

addBlockMutator(st, id, by, courtId, dateISO, time, reason) ==
    [st EXCEPT !.blocks = Append(@,
        [id |-> id, courtId |-> courtId, dateISO |-> dateISO, time |-> time,
         reason |-> reason, createdBy |-> by])]

removeBlockMutator(st, blockId) ==
    [st EXCEPT !.blocks = SelectSeq(@, LAMBDA b : b.id # blockId)]

NoRefund == [percent |-> 0, amount |-> 0, by |-> 0]
EmptyMeta == [mp |-> NULL, cashBy |-> 0, refund |-> NoRefund]

\* the reservation pushed without its payment
createReservationNoPayment(st, id, userId, by, dateISO, time, courtId, price) ==
    [st EXCEPT
        !.reservations = Append(@,
            [id |-> id, userId |-> userId, createdBy |-> by, dateISO |-> dateISO,
             time |-> time, courtId |-> courtId,
             status |-> RES_STATUS.PENDING_PAYMENT, price |-> price,
             cancelReason |-> NULL])]

\* the owner recorded as the creator
createReservationCreatorIsOwner(st, id, userId, by, dateISO, time, courtId, price) ==
    [st EXCEPT
        !.reservations = Append(@,
            [id |-> id, userId |-> userId, createdBy |-> userId, dateISO |-> dateISO,
             time |-> time, courtId |-> courtId,
             status |-> RES_STATUS.PENDING_PAYMENT, price |-> price,
             cancelReason |-> NULL]),
        !.payments = Append(@,
            [id |-> Len(st.payments) + 1, reservationId |-> id, method |-> NULL,
             status |-> PAY_STATUS.PENDING, amount |-> price, meta |-> EmptyMeta])]

createReservationMutator(st, id, userId, by, dateISO, time, courtId, price) ==
    [st EXCEPT
        !.reservations = Append(@,
            [id |-> id, userId |-> userId, createdBy |-> by, dateISO |-> dateISO,
             time |-> time, courtId |-> courtId,
             status |-> RES_STATUS.PENDING_PAYMENT, price |-> price,
             cancelReason |-> NULL]),
        !.payments = Append(@,
            [id |-> Len(st.payments) + 1, reservationId |-> id, method |-> NULL,
             status |-> PAY_STATUS.PENDING, amount |-> price, meta |-> EmptyMeta])]

\* the payment approved, the reservation left as it was
payWithMercadoPagoPaymentOnly(st, reservationId) ==
    LET r == findReservation(st, reservationId)
        p == findPayment(st, reservationId)
    IN  IF r = 0 \/ p = 0 THEN st
        ELSE [st EXCEPT
                !.payments[p] =
                    [@ EXCEPT !.method = "Mercado Pago",
                              !.status = PAY_STATUS.APPROVED,
                              !.meta = [EmptyMeta EXCEPT !.mp = "approved"]]]

payWithMercadoPagoMutator(st, reservationId) ==
    LET r == findReservation(st, reservationId)
        p == findPayment(st, reservationId)
    IN  IF r = 0 \/ p = 0 THEN st
        ELSE [st EXCEPT
                !.payments[p] =
                    [@ EXCEPT !.method = "Mercado Pago",
                              !.status = PAY_STATUS.APPROVED,
                              !.meta = [EmptyMeta EXCEPT !.mp = "approved"]],
                !.reservations[r] = [@ EXCEPT !.status = RES_STATUS.CONFIRMED]]

\* the cash payment approved without the administrator recorded on it
registerCashPaymentAnonymous(st, by, reservationId) ==
    LET r == findReservation(st, reservationId)
        p == findPayment(st, reservationId)
    IN  IF r = 0 \/ p = 0 THEN st
        ELSE [st EXCEPT
                !.payments[p] =
                    [@ EXCEPT !.method = "Efectivo (recepcion)",
                              !.status = PAY_STATUS.APPROVED],
                !.reservations[r] = [@ EXCEPT !.status = RES_STATUS.CONFIRMED]]

registerCashPaymentMutator(st, by, reservationId) ==
    LET r == findReservation(st, reservationId)
        p == findPayment(st, reservationId)
    IN  IF r = 0 \/ p = 0 THEN st
        ELSE [st EXCEPT
                !.payments[p] =
                    [@ EXCEPT !.method = "Efectivo (recepcion)",
                              !.status = PAY_STATUS.APPROVED,
                              !.meta = [EmptyMeta EXCEPT !.cashBy = by]],
                !.reservations[r] = [@ EXCEPT !.status = RES_STATUS.CONFIRMED]]

\* the cancellation that also puts the payment back to Pending
cancelReservationRefunding(st, reservationId, reason) ==
    LET r == findReservation(st, reservationId)
        p == findPayment(st, reservationId)
    IN  IF r = 0 THEN st
        ELSE [st EXCEPT
                !.reservations[r] =
                    [@ EXCEPT !.status = RES_STATUS.CANCELLED,
                              !.cancelReason = IF reason = NULL THEN "" ELSE reason],
                !.payments[p] = [@ EXCEPT !.status = PAY_STATUS.PENDING]]

\* the cancellation that removes the reservation from the store
cancelReservationDeleting(st, reservationId, reason) ==
    [st EXCEPT !.reservations = SelectSeq(@, LAMBDA x : x.id # reservationId)]

cancelReservationMutator(st, reservationId, reason) ==
    LET r == findReservation(st, reservationId)
    IN  IF r = 0 THEN st
        ELSE [st EXCEPT
                !.reservations[r] =
                    [@ EXCEPT !.status = RES_STATUS.CANCELLED,
                              !.cancelReason = IF reason = NULL THEN "" ELSE reason]]

\* the refund recorded, the reservation left in its status
markNoShowAndRefund50KeepingStatus(st, by, reservationId) ==
    LET r == findReservation(st, reservationId)
        p == findPayment(st, reservationId)
    IN  IF r = 0 \/ p = 0 THEN st
        ELSE [st EXCEPT
                !.payments[p] =
                    [@ EXCEPT !.status = PAY_STATUS.REFUNDED_PARTIAL,
                              !.meta.refund =
                                  [percent |-> 50,
                                   amount |-> RoundHalf(st.payments[p].amount),
                                   by |-> by]]]

markNoShowAndRefund50Mutator(st, by, reservationId) ==
    LET r == findReservation(st, reservationId)
        p == findPayment(st, reservationId)
    IN  IF r = 0 \/ p = 0 THEN st
        ELSE [st EXCEPT
                !.reservations[r] = [@ EXCEPT !.status = RES_STATUS.NO_SHOW],
                !.payments[p] =
                    [@ EXCEPT !.status = PAY_STATUS.REFUNDED_PARTIAL,
                              !.meta.refund =
                                  [percent |-> 50,
                                   amount |-> RoundHalf(st.payments[p].amount),
                                   by |-> by]]]

\* ------------------------------------------------------- the initial state
\* bootstrapState: the seed, or whatever an earlier session persisted
AdminDni == <<"1", "2", "3", "4", "5", "6", "7", "8">>
MemberDni == <<"2", "0", "3", "0", "4", "0", "5", "1">>

Seed ==
    [config |-> APP_CONFIG_DEFAULT,
     courts |-> COURTS_DEFAULT,
     users |-> <<[id |-> 1, role |-> "admin", email |-> "admin@edlp.com",
                  phone |-> "11-0000-0000", dni |-> AdminDni, userType |-> "Socio",
                  passwordHash |-> "admin", isEmailValidated |-> TRUE,
                  isPhoneValidated |-> TRUE]>>,
     reservations |-> <<>>,
     payments |-> <<>>,
     blocks |-> <<>>,
     audit |-> <<[by |-> 1, action |-> "Seed"]>>,
     notifications |-> <<>>]

\* the tiers the wrong way round
userTypeOfInverted(dni) == IF validateSocioByDNI(dni) THEN "No Socio" ELSE "Socio"

userTypeOf(dni) == IF validateSocioByDNI(dni) THEN "Socio" ELSE "No Socio"

\* the store an earlier session left in localStorage: one user registered
\* and validated both contacts (register, then validateAccount twice)
Persisted ==
    LET s1 == notify(audit(registerMutator(Seed, "ana@mail.com", "221-555-0001", MemberDni,
                                           userTypeOf(MemberDni), "Abc123!"),
                           2, "Register"),
                     "Validacion de cuenta", "ana@mail.com", NULL)
        s2 == notify(audit(validateAccountMutator(s1, 2, [emailOk |-> TRUE]), 2, "Account"),
                     "Validacion de cuenta", "ana@mail.com", NULL)
        s3 == notify(audit(validateAccountMutator(s2, 2, [phoneOk |-> TRUE]), 2, "Account"),
                     "Validacion de cuenta", "ana@mail.com", NULL)
    IN  s3

\* the stores of a later session: the user logged in again, after validating
\* both contacts, one of them, or none (every one holds five audit entries)
Registered ==
    notify(audit(registerMutator(Seed, "ana@mail.com", "221-555-0001", MemberDni,
                                 userTypeOf(MemberDni), "Abc123!"),
                 2, "Register"),
           "Validacion de cuenta", "ana@mail.com", NULL)

validateAccountCommit(st, by, flags) ==
    LET s1 == audit(validateAccountMutator(st, by, flags), by, "Account")
        u == findUser(st, by)
    IN  IF u = 0 THEN s1 ELSE notify(s1, "Validacion de cuenta", st.users[u].email, NULL)

loginEmailPassword(st, id) == audit(st, id, "Login")

loginAgain(st, id, n) ==
    IF n = 1 THEN loginEmailPassword(st, id)
    ELSE IF n = 2 THEN loginEmailPassword(loginEmailPassword(st, id), id)
    ELSE loginEmailPassword(loginEmailPassword(loginEmailPassword(st, id), id), id)

PersistedStores ==
    {loginAgain(Persisted, 2, 1),
     loginAgain(validateAccountCommit(Registered, 2, [emailOk |-> TRUE]), 2, 2),
     loginAgain(validateAccountCommit(Registered, 2, [phoneOk |-> TRUE]), 2, 2),
     loginAgain(Registered, 2, 3)}

Init ==
    /\ store = Persisted
    /\ db = store
    /\ mpCalls = {}
    /\ regCalls = {}
    /\ last = [op |-> "bootstrapState", err |-> "ok", id |-> 0]

\* ------------------------------------------------------------ the actions
UserIds == {db.users[i].id : i \in DOMAIN db.users}
AdminIds == {db.users[i].id : i \in {j \in DOMAIN db.users : db.users[j].role = "admin"}}
ReservationIds == {store.reservations[i].id : i \in DOMAIN store.reservations}

\* room left in the audit log for n more entries, the suspended calls counted
Room(n) ==
    Len(store.audit) + Cardinality(mpCalls) + Cardinality(regCalls) + n <= MaxAudit

Returned(op, err, id) == last' = [op |-> op, err |-> err, id |-> id]

\* App re-renders: the next api object is built from the current store
Render ==
    /\ db # store
    /\ db' = store
    /\ UNCHANGED <<store, mpCalls, regCalls, last>>

\* the same pipeline with the reservation conflict looked at before the blocks
createReservationErrorTakenFirst(snap, by, dateISO, time, courtId, forUserId) ==
    LET u == findUser(snap, IF forUserId # 0 THEN forUserId ELSE by)
        cfg == snap.config
    IN  IF u = 0 THEN "InvalidUser"
        ELSE IF cfg.requireEmailValidation /\ ~snap.users[u].isEmailValidated
            THEN "EmailNotValidated"
        ELSE IF cfg.requirePhoneValidation /\ ~snap.users[u].isPhoneValidated
            THEN "PhoneNotValidated"
        ELSE IF dateISO < Today THEN "PastDate"
        ELSE IF dateISO > Today + MaxAdvanceDays THEN "TooFarAhead"
        ELSE IF courtId \notin DOMAIN snap.courts \/ ~snap.courts[courtId]
            THEN "ResourceUnavailable"
        ELSE IF \E i \in DOMAIN snap.reservations :
                    /\ snap.reservations[i].courtId = courtId
                    /\ snap.reservations[i].dateISO = dateISO
                    /\ snap.reservations[i].time = time
                    /\ snap.reservations[i].status # RES_STATUS.CANCELLED
            THEN "SlotTaken"
        ELSE IF \E i \in DOMAIN snap.blocks :
                    /\ snap.blocks[i].courtId = courtId
                    /\ snap.blocks[i].dateISO = dateISO
                    /\ snap.blocks[i].time = time
            THEN "SlotBlocked"
        ELSE IF \E i \in DOMAIN snap.reservations :
                    /\ snap.reservations[i].userId = snap.users[u].id
                    /\ snap.reservations[i].dateISO = dateISO
                    /\ snap.reservations[i].time = time
                    /\ snap.reservations[i].status # RES_STATUS.CANCELLED
            THEN "UserDoubleBooked"
        ELSE "ok"

\* the same pipeline with the last day of the window refused
createReservationErrorOffByOne(snap, by, dateISO, time, courtId, forUserId) ==
    LET u == findUser(snap, IF forUserId # 0 THEN forUserId ELSE by)
        cfg == snap.config
    IN  IF u = 0 THEN "InvalidUser"
        ELSE IF cfg.requireEmailValidation /\ ~snap.users[u].isEmailValidated
            THEN "EmailNotValidated"
        ELSE IF cfg.requirePhoneValidation /\ ~snap.users[u].isPhoneValidated
            THEN "PhoneNotValidated"
        ELSE IF dateISO < Today THEN "PastDate"
        ELSE IF dateISO >= Today + MaxAdvanceDays THEN "TooFarAhead"
        ELSE IF courtId \notin DOMAIN snap.courts \/ ~snap.courts[courtId]
            THEN "ResourceUnavailable"
        ELSE IF \E i \in DOMAIN snap.blocks :
                    /\ snap.blocks[i].courtId = courtId
                    /\ snap.blocks[i].dateISO = dateISO
                    /\ snap.blocks[i].time = time
            THEN "SlotBlocked"
        ELSE IF \E i \in DOMAIN snap.reservations :
                    /\ snap.reservations[i].courtId = courtId
                    /\ snap.reservations[i].dateISO = dateISO
                    /\ snap.reservations[i].time = time
                    /\ snap.reservations[i].status # RES_STATUS.CANCELLED
            THEN "SlotTaken"
        ELSE IF \E i \in DOMAIN snap.reservations :
                    /\ snap.reservations[i].userId = snap.users[u].id
                    /\ snap.reservations[i].dateISO = dateISO
                    /\ snap.reservations[i].time = time
                    /\ snap.reservations[i].status # RES_STATUS.CANCELLED
            THEN "UserDoubleBooked"
        ELSE "ok"

\* the same pipeline with the cancelled reservations still holding their slot
createReservationErrorCountingCancelled(snap, by, dateISO, time, courtId, forUserId) ==
    LET u == findUser(snap, IF forUserId # 0 THEN forUserId ELSE by)
        cfg == snap.config
    IN  IF u = 0 THEN "InvalidUser"
        ELSE IF cfg.requireEmailValidation /\ ~snap.users[u].isEmailValidated
            THEN "EmailNotValidated"
        ELSE IF cfg.requirePhoneValidation /\ ~snap.users[u].isPhoneValidated
            THEN "PhoneNotValidated"
        ELSE IF dateISO < Today THEN "PastDate"
        ELSE IF dateISO > Today + MaxAdvanceDays THEN "TooFarAhead"
        ELSE IF courtId \notin DOMAIN snap.courts \/ ~snap.courts[courtId]
            THEN "ResourceUnavailable"
        ELSE IF \E i \in DOMAIN snap.blocks :
                    /\ snap.blocks[i].courtId = courtId
                    /\ snap.blocks[i].dateISO = dateISO
                    /\ snap.blocks[i].time = time
            THEN "SlotBlocked"
        ELSE IF \E i \in DOMAIN snap.reservations :
                    /\ snap.reservations[i].courtId = courtId
                    /\ snap.reservations[i].dateISO = dateISO
                    /\ snap.reservations[i].time = time
            THEN "SlotTaken"
        ELSE IF \E i \in DOMAIN snap.reservations :
                    /\ snap.reservations[i].userId = snap.users[u].id
                    /\ snap.reservations[i].dateISO = dateISO
                    /\ snap.reservations[i].time = time
                    /\ snap.reservations[i].status # RES_STATUS.CANCELLED
            THEN "UserDoubleBooked"
        ELSE "ok"

\* the validation pipeline of createReservation, on the snapshot: the first
\* error thrown, "ok" when none is
createReservationError(snap, by, dateISO, time, courtId, forUserId) ==
    LET u == findUser(snap, IF forUserId # 0 THEN forUserId ELSE by)
        cfg == snap.config
    IN  IF u = 0 THEN "InvalidUser"
        ELSE IF cfg.requireEmailValidation /\ ~snap.users[u].isEmailValidated
            THEN "EmailNotValidated"
        ELSE IF cfg.requirePhoneValidation /\ ~snap.users[u].isPhoneValidated
            THEN "PhoneNotValidated"
        ELSE IF dateISO < Today THEN "PastDate"
        ELSE IF dateISO > Today + MaxAdvanceDays THEN "TooFarAhead"
        ELSE IF courtId \notin DOMAIN snap.courts \/ ~snap.courts[courtId]
            THEN "ResourceUnavailable"
        ELSE IF \E i \in DOMAIN snap.blocks :
                    /\ snap.blocks[i].courtId = courtId
                    /\ snap.blocks[i].dateISO = dateISO
                    /\ snap.blocks[i].time = time
            THEN "SlotBlocked"
        ELSE IF \E i \in DOMAIN snap.reservations :
                    /\ snap.reservations[i].courtId = courtId
                    /\ snap.reservations[i].dateISO = dateISO
                    /\ snap.reservations[i].time = time
                    /\ snap.reservations[i].status # RES_STATUS.CANCELLED
            THEN "SlotTaken"
        ELSE IF \E i \in DOMAIN snap.reservations :
                    /\ snap.reservations[i].userId = snap.users[u].id
                    /\ snap.reservations[i].dateISO = dateISO
                    /\ snap.reservations[i].time = time
                    /\ snap.reservations[i].status # RES_STATUS.CANCELLED
            THEN "UserDoubleBooked"
        ELSE "ok"

\* the price createReservation reads for the user at position u of the snapshot
priceFor(snap, u) ==
    IF snap.users[u].userType = "Socio" THEN snap.config.priceSocio
    ELSE snap.config.priceNoSocio

\* the store after a createReservation call that passed its checks: the
\* commit, the audit entry and the notification
createReservationCommit(st, snap, by, dateISO, time, courtId, forUserId) ==
    LET u == findUser(snap, IF forUserId # 0 THEN forUserId ELSE by)
        id == Len(st.reservations) + 1
    IN  notify(audit(createReservationMutator(st, id, snap.users[u].id, by, dateISO, time,
                                              courtId, priceFor(snap, u)),
                     by, "Reserva"),
               "Reserva creada", snap.users[u].email, id)

\* a call that passes its checks
createReservation(by, dateISO, time, courtId, forUserId) ==
    /\ createReservationError(db, by, dateISO, time, courtId, forUserId) = "ok"
    /\ Room(1)
    /\ store' = createReservationCommit(store, db, by, dateISO, time, courtId, forUserId)
    /\ Returned("createReservation", "ok", Len(store.reservations) + 1)
    /\ UNCHANGED <<db, mpCalls, regCalls>>

\* a call that throws after having written its audit entry
createReservationThrowsAudited(by, dateISO, time, courtId, forUserId) ==
    /\ createReservationError(db, by, dateISO, time, courtId, forUserId) # "ok"
    /\ store' = audit(store, by, "Reserva")
    /\ Returned("createReservation",
                createReservationError(db, by, dateISO, time, courtId, forUserId), 0)
    /\ UNCHANGED <<db, mpCalls, regCalls>>

\* a call that throws at its first failing check: nothing is committed
createReservationThrows(by, dateISO, time, courtId, forUserId) ==
    /\ createReservationError(db, by, dateISO, time, courtId, forUserId) # "ok"
    /\ Returned("createReservation",
                createReservationError(db, by, dateISO, time, courtId, forUserId), 0)
    /\ UNCHANGED <<store, db, mpCalls, regCalls>>

\* payWithMercadoPago up to its await: the call is suspended, holding the
\* recipient its snapshot gives for the notification
payWithMercadoPagoStart(by, reservationId) ==
    LET call == [by |-> by, reservationId |-> reservationId,
                 to |-> ownerEmail(db, reservationId)]
    IN  /\ call \notin mpCalls
        /\ Room(1)
        /\ mpCalls' = mpCalls \cup {call}
        /\ UNCHANGED <<store, db, regCalls, last>>

\* the call that resolves only while the reservation is Pending payment
payWithMercadoPagoFinishWhilePending(call) ==
    /\ call \in mpCalls
    /\ findReservation(store, call.reservationId) # 0
    /\ store.reservations[findReservation(store, call.reservationId)].status
         = RES_STATUS.PENDING_PAYMENT
    /\ mpCalls' = mpCalls \ {call}
    /\ store' =
         LET s1 == audit(payWithMercadoPagoMutator(store, call.reservationId), call.by, "Pago")
         IN  IF call.to = NULL THEN s1
             ELSE notify(s1, "Pago confirmado", call.to, call.reservationId)
    /\ Returned("payWithMercadoPago", "ok", call.reservationId)
    /\ UNCHANGED <<db, regCalls>>

\* the gateway delay is over: commit, audit, notification, return true
payWithMercadoPagoFinish(call) ==
    /\ call \in mpCalls
    /\ mpCalls' = mpCalls \ {call}
    /\ store' =
         LET s1 == audit(payWithMercadoPagoMutator(store, call.reservationId), call.by, "Pago")
         IN  IF call.to = NULL THEN s1
             ELSE notify(s1, "Pago confirmado", call.to, call.reservationId)
    /\ Returned("payWithMercadoPago", "ok", call.reservationId)
    /\ UNCHANGED <<db, regCalls>>

registerCashPaymentCommit(st, snap, by, reservationId) ==
    notifyOwner(audit(registerCashPaymentMutator(st, by, reservationId), by, "Pago"),
                snap, "Pago confirmado", reservationId)

registerCashPayment(by, reservationId) ==
    /\ Room(1)
    /\ store' = registerCashPaymentCommit(store, db, by, reservationId)
    /\ Returned("registerCashPayment", "ok", reservationId)
    /\ UNCHANGED <<db, mpCalls, regCalls>>

cancelReservation(by, reservationId, reason) ==
    /\ Room(1)
    /\ store' = notifyOwner(audit(cancelReservationMutator(store, reservationId, reason),
                                  by, "Reserva"),
                            db, "Cancelacion", reservationId)
    /\ Returned("cancelReservation", "ok", reservationId)
    /\ UNCHANGED <<db, mpCalls, regCalls>>

markNoShowAndRefund50(by, reservationId) ==
    /\ Room(1)
    /\ store' = notifyOwner(
                    notifyOwner(audit(markNoShowAndRefund50Mutator(store, by, reservationId),
                                      by, "NoShow"),
                                db, "No presentacion", reservationId),
                    db, "Reintegros", reservationId)
    /\ Returned("markNoShowAndRefund50", "ok", reservationId)
    /\ UNCHANGED <<db, mpCalls, regCalls>>

\* the manual reservation with the cash step left out
adminCreateManualReservationNoCash(by, userId, dateISO, time, courtId, markPaidCash) ==
    LET resId == Len(store.reservations) + 1
        s1 == createReservationCommit(store, db, by, dateISO, time, courtId, userId)
    IN  /\ createReservationError(db, by, dateISO, time, courtId, userId) = "ok"
        /\ Room(IF markPaidCash THEN 3 ELSE 2)
        /\ store' = audit(s1, by, "Admin")
        /\ Returned("adminCreateManualReservation", "ok", resId)
        /\ UNCHANGED <<db, mpCalls, regCalls>>

\* createReservation, then registerCashPayment when markPaidCash, then the
\* "Admin" audit entry: all on the api object (the snapshot) of the caller
adminCreateManualReservation(by, userId, dateISO, time, courtId, markPaidCash) ==
    LET resId == Len(store.reservations) + 1
        s1 == createReservationCommit(store, db, by, dateISO, time, courtId, userId)
        s2 == IF markPaidCash THEN registerCashPaymentCommit(s1, db, by, resId) ELSE s1
    IN  /\ createReservationError(db, by, dateISO, time, courtId, userId) = "ok"
        /\ Room(IF markPaidCash THEN 3 ELSE 2)
        /\ store' = audit(s2, by, "Admin")
        /\ Returned("adminCreateManualReservation", "ok", resId)
        /\ UNCHANGED <<db, mpCalls, regCalls>>

\* the error of createReservation propagates: nothing is committed
adminCreateManualReservationThrows(by, userId, dateISO, time, courtId, markPaidCash) ==
    /\ createReservationError(db, by, dateISO, time, courtId, userId) # "ok"
    /\ Returned("adminCreateManualReservation",
                createReservationError(db, by, dateISO, time, courtId, userId), 0)
    /\ UNCHANGED <<store, db, mpCalls, regCalls>>

setConfig(by, patch) ==
    /\ Room(1)
    /\ store' = audit(setConfigMutator(store, patch), by, "Config")
    /\ Returned("setConfig", "ok", 0)
    /\ UNCHANGED <<db, mpCalls, regCalls>>

\* the court switched without the audit entry
setCourtActiveUnaudited(by, courtId, isActive) ==
    /\ Room(1)
    /\ store' = setCourtActiveMutator(store, courtId, isActive)
    /\ Returned("setCourtActive", "ok", 0)
    /\ UNCHANGED <<db, mpCalls, regCalls>>

setCourtActive(by, courtId, isActive) ==
    /\ Room(1)
    /\ store' = audit(setCourtActiveMutator(store, courtId, isActive), by, "Court")
    /\ Returned("setCourtActive", "ok", 0)
    /\ UNCHANGED <<db, mpCalls, regCalls>>

\* uid("blk"): a fresh identifier, here the count of blocks ever added
newBlockId(st) ==
    Cardinality({i \in DOMAIN st.audit : st.audit[i].action = "Block"}) + 1

addBlock(by, courtId, dateISO, time, reason) ==
    /\ Room(1)
    /\ store' = audit(addBlockMutator(store, newBlockId(store), by, courtId, dateISO, time,
                                      reason),
                      by, "Block")
    /\ Returned("addBlock", "ok", newBlockId(store))
    /\ UNCHANGED <<db, mpCalls, regCalls>>

removeBlock(by, blockId) ==
    /\ Room(1)
    /\ store' = audit(removeBlockMutator(store, blockId), by, "Unblock")
    /\ Returned("removeBlock", "ok", blockId)
    /\ UNCHANGED <<db, mpCalls, regCalls>>

\* ------------------------------------------------- accounts and sessions
\* the checks of register on the snapshot, in their order: the first error
\* thrown, "ok" when none is
registerError(snap, email, phone, dni, password) ==
    LET dniClean == trim(dni)
        emailClean == toLowerCase(trim(CharsOf(email)))
        phoneClean == trim(CharsOf(phone))
    IN  IF dniClean = <<>> \/ Len(dniClean) < 6 THEN "InvalidDni"
        ELSE IF ~includes(emailClean, "@") THEN "InvalidEmail"
        ELSE IF phoneClean = <<>> THEN "PhoneRequired"
        ELSE IF ~passRegexTest(CharsOf(password)) THEN "WeakPassword"
        ELSE IF \E u \in DOMAIN snap.users :
                    \/ snap.users[u].email = StringOf(emailClean)
                    \/ snap.users[u].dni = dniClean
            THEN "DuplicateUser"
        ELSE "ok"

\* register up to its await: the checks passed, the call is suspended on
\* validateSocioByDNI, holding its cleaned arguments
registerStart(email, phone, dni, password) ==
    LET call == [email |-> StringOf(toLowerCase(trim(CharsOf(email)))),
                 phone |-> StringOf(trim(CharsOf(phone))),
                 dni |-> trim(dni), pass |-> password]
    IN  /\ registerError(db, email, phone, dni, password) = "ok"
        /\ call \notin regCalls
        /\ Room(1)
        /\ regCalls' = regCalls \cup {call}
        /\ UNCHANGED <<store, db, mpCalls, last>>

\* a register call that throws at its first failing check
registerThrows(email, phone, dni, password) ==
    /\ registerError(db, email, phone, dni, password) # "ok"
    /\ Returned("register", registerError(db, email, phone, dni, password), 0)
    /\ UNCHANGED <<store, db, mpCalls, regCalls>>

\* the membership lookup has answered: commit, audit, notification, return id
registerFinish(call) ==
    LET id == Len(store.users) + 1
    IN  /\ call \in regCalls
        /\ regCalls' = regCalls \ {call}
        /\ store' = notify(audit(registerMutator(store, call.email, call.phone, call.dni,
                                                 userTypeOf(call.dni), call.pass),
                                 id, "Register"),
                           "Validacion de cuenta", call.email, NULL)
        /\ Returned("register", "ok", id)
        /\ UNCHANGED <<db, mpCalls>>

validateAccount(by, flags) ==
    LET s1 == audit(validateAccountMutator(store, by, flags), by, "Account")
        u == findUser(db, by)
    IN  /\ Room(1)
        /\ store' = IF u = 0 THEN s1
                    ELSE notify(s1, "Validacion de cuenta", db.users[u].email, NULL)
        /\ Returned("validateAccount", "ok", by)
        /\ UNCHANGED <<db, mpCalls, regCalls>>

\* the position in the snapshot of the user loginEmailPassword finds, 0 if none
loginUser(snap, email) ==
    LET S == {i \in DOMAIN snap.users :
                 CharsOf(snap.users[i].email) = toLowerCase(trim(CharsOf(email)))}
    IN  IF S = {} THEN 0 ELSE First(S)

\* the login that does not compare the stored credential
loginErrorAnyPassword(snap, email, password) ==
    LET u == loginUser(snap, email)
    IN  IF u = 0 THEN "UserNotFound" ELSE "ok"

loginError(snap, email, password) ==
    LET u == loginUser(snap, email)
    IN  IF u = 0 THEN "UserNotFound"
        ELSE IF snap.users[u].passwordHash # password THEN "InvalidCredentials"
        ELSE "ok"

\* AuthView.doLogin: loginEmailPassword returns the id and writes the audit entry
doLogin(email, password) ==
    LET id == db.users[loginUser(db, email)].id
    IN  /\ loginError(db, email, password) = "ok"
        /\ Room(1)
        /\ store' = loginEmailPassword(store, id)
        /\ Returned("loginEmailPassword", "ok", id)
        /\ UNCHANGED <<db, mpCalls, regCalls>>

doLoginThrows(email, password) ==
    /\ loginError(db, email, password) # "ok"
    /\ Returned("loginEmailPassword", loginError(db, email, password), 0)
    /\ UNCHANGED <<store, db, mpCalls, regCalls>>

\* ------------------------------------------------------ the inputs drawn
\* the arguments are those the views pass: the session user books, pays and
\* cancels their own reservations (BookingView, PaymentDialog,
\* MyReservations); the administrator acts on any reservation and creates
\* manual reservations for the other users (AdminView)
BlockReasons == {"Mantenimiento"}
\* the reasons the two views pass to cancelReservation
CancelReasons == {"Cancelacion por usuario", "Cancelacion admin"}
ConfigPatches ==
    {[priceSocio |-> 5, priceNoSocio |-> 7501], [requireEmailValidation |-> FALSE]}

EligibleUserIds ==
    {db.users[i].id : i \in {j \in DOMAIN db.users : db.users[j].role # "admin"}}

ownerOf(reservationId) == store.reservations[findReservation(store, reservationId)].userId

Next ==
    \/ Render
    \/ \E by \in UserIds, d \in Dates, t \in SLOT_TIMES, c \in CourtIds :
          createReservation(by, d, t, c, 0)
    \/ \E by \in AdminIds, u \in EligibleUserIds, d \in Dates, t \in SLOT_TIMES,
          c \in CourtIds, cash \in BOOLEAN :
          adminCreateManualReservation(by, u, d, t, c, cash)
    \/ \E id \in ReservationIds : payWithMercadoPagoStart(ownerOf(id), id)
    \/ \E call \in mpCalls : payWithMercadoPagoFinish(call)
    \/ \E by \in AdminIds, id \in ReservationIds : registerCashPayment(by, id)
    \/ \E id \in ReservationIds : cancelReservation(ownerOf(id), id, "Cancelacion por usuario")
    \/ \E by \in AdminIds, id \in ReservationIds :
          cancelReservation(by, id, "Cancelacion admin")
    \/ \E by \in AdminIds, id \in ReservationIds : markNoShowAndRefund50(by, id)
    \/ \E by \in AdminIds, patch \in ConfigPatches : setConfig(by, patch)
    \/ \E by \in AdminIds, c \in CourtIds : setCourtActive(by, c, ~db.courts[c])
    \/ \E by \in AdminIds, c \in CourtIds, d \in Dates, t \in SLOT_TIMES,
          reason \in BlockReasons :
          addBlock(by, c, d, t, reason)
    \/ \E by \in AdminIds, i \in DOMAIN store.blocks : removeBlock(by, store.blocks[i].id)

Spec == Init /\ [][Next]_vars

\* the same, the calls that throw recorded in `last' as well
Throws ==
    \/ \E by \in UserIds, d \in Dates, t \in SLOT_TIMES, c \in CourtIds :
          createReservationThrows(by, d, t, c, 0)
    \/ \E by \in AdminIds, u \in EligibleUserIds, d \in Dates, t \in SLOT_TIMES,
          c \in CourtIds, cash \in BOOLEAN :
          adminCreateManualReservationThrows(by, u, d, t, c, cash)

NextCalls == Next \/ Throws

SpecCalls == Init /\ [][NextCalls]_vars

\* createReservation with any arguments: dates around the booking window, a
\* court that does not exist, a forUserId that no user carries; started from
\* any of the persisted stores
DateInputs == {Today - 1, Today, Today + MaxAdvanceDays, Today + MaxAdvanceDays + 1}
CourtInputs == CourtIds \cup {"c9"}
SlotInputs == {"08:00"}
ForUserIdInputs == {0, Len(db.users) + 1}

InitChecks ==
    /\ store \in PersistedStores
    /\ db = store
    /\ mpCalls = {}
    /\ regCalls = {}
    /\ last = [op |-> "bootstrapState", err |-> "ok", id |-> 0]

NextChecks ==
    \/ Render
    \/ \E by \in UserIds, d \in DateInputs, t \in SlotInputs, c \in CourtInputs,
          f \in ForUserIdInputs :
          createReservation(by, d, t, c, f)
    \/ \E by \in UserIds, d \in DateInputs, t \in SlotInputs, c \in CourtInputs,
          f \in ForUserIdInputs :
          createReservationThrows(by, d, t, c, f)
    \/ \E by \in AdminIds, c \in CourtIds : setCourtActive(by, c, ~db.courts[c])
    \/ \E by \in AdminIds, c \in CourtIds, d \in Dates, t \in SlotInputs,
          reason \in BlockReasons :
          addBlock(by, c, d, t, reason)

SpecChecks == InitChecks /\ [][NextChecks]_vars

\* registration, validation and login next to booking, payment and
\* configuration; register is given duplicates of the persisted user, a DNI
\* that is too short, an e-mail without "@", an empty phone and passwords
\* around the policy
NewDni == <<"3", "0", "1", "2", "3", "4", "5", "6">>
OddDni == <<"3", "0", "1", "2", "3", "4", "5", "7">>
DniInputs == {MemberDni \o <<" ">>, NewDni, <<"3", "0", "1">>}
EmailInputs == {" Ana@Mail.com", "beto@mail.com", "beto.mail.com"}
PhoneInputs == {"221-555-0001", "221-555-0002", ""}
PasswordInputs == {"abc123", "Abc123!", "Ab12!", "abc123!", "Abc1234"}
FlagInputs == {[emailOk |-> TRUE], [phoneOk |-> TRUE]}
UserIdInputs == UserIds \cup {Len(db.users) + 1}

\* the forms that pass the checks of register on the persisted store
RegisterForms ==
    {[email |-> "beto@mail.com", phone |-> "221-555-0002", dni |-> NewDni,
      password |-> "Abc123!"],
     [email |-> "beto@mail.com", phone |-> "221-555-0001", dni |-> OddDni,
      password |-> "Abc123!"]}
LoginForms ==
    {[email |-> " Ana@Mail.com", password |-> "Abc123!"],
     [email |-> "beto@mail.com", password |-> "Abc123!"]}

NextUsers ==
    \/ Render
    \/ \E f \in RegisterForms : registerStart(f.email, f.phone, f.dni, f.password)
    \/ \E call \in regCalls : registerFinish(call)
    \/ \E by \in UserIdInputs, flags \in FlagInputs : validateAccount(by, flags)
    \/ \E f \in LoginForms : doLogin(f.email, f.password)
    \/ \E by \in UserIds, d \in Dates, t \in SlotInputs, c \in CourtIds :
          createReservation(by, d, t, c, 0)
    \/ \E id \in ReservationIds : payWithMercadoPagoStart(ownerOf(id), id)
    \/ \E call \in mpCalls : payWithMercadoPagoFinish(call)
    \/ \E by \in AdminIds, patch \in ConfigPatches : setConfig(by, patch)

SpecUsers == Init /\ [][NextUsers]_vars

\* register alone, with every combination of its inputs
NextRegister ==
    \/ Render
    \/ \E e \in EmailInputs, ph \in PhoneInputs, dni \in DniInputs, pw \in PasswordInputs :
          registerStart(e, ph, dni, pw)
    \/ \E e \in EmailInputs, ph \in PhoneInputs, dni \in DniInputs, pw \in PasswordInputs :
          registerThrows(e, ph, dni, pw)
    \/ \E call \in regCalls : registerFinish(call)

SpecRegister == Init /\ [][NextRegister]_vars

\* every operation that commits a mutation, on one slot of the day
NextAudit ==
    \/ Render
    \/ \E f \in RegisterForms : registerStart(f.email, f.phone, f.dni, f.password)
    \/ \E call \in regCalls : registerFinish(call)
    \/ \E by \in UserIds, flags \in FlagInputs : validateAccount(by, flags)
    \/ \E by \in AdminIds, patch \in ConfigPatches : setConfig(by, patch)
    \/ \E by \in AdminIds, c \in CourtIds : setCourtActive(by, c, ~db.courts[c])
    \/ \E by \in AdminIds, c \in CourtIds, d \in Dates, t \in SlotInputs,
          reason \in BlockReasons :
          addBlock(by, c, d, t, reason)
    \/ \E by \in AdminIds, i \in DOMAIN store.blocks : removeBlock(by, store.blocks[i].id)
    \/ \E by \in UserIds, d \in Dates, t \in SlotInputs, c \in CourtIds :
          createReservation(by, d, t, c, 0)
    \/ \E id \in ReservationIds : payWithMercadoPagoStart(ownerOf(id), id)
    \/ \E call \in mpCalls : payWithMercadoPagoFinish(call)
    \/ \E by \in AdminIds, id \in ReservationIds : registerCashPayment(by, id)
    \/ \E id \in ReservationIds : cancelReservation(ownerOf(id), id, "Cancelacion por usuario")
    \/ \E by \in AdminIds, id \in ReservationIds : markNoShowAndRefund50(by, id)

SpecAudit == Init /\ [][NextAudit]_vars

\* the login form with every combination of its inputs, beside registrations
NextLogin ==
    \/ Render
    \/ \E f \in RegisterForms : registerStart(f.email, f.phone, f.dni, f.password)
    \/ \E call \in regCalls : registerFinish(call)
    \/ \E e \in EmailInputs, pw \in PasswordInputs : doLogin(e, pw)
    \/ \E e \in EmailInputs, pw \in PasswordInputs : doLoginThrows(e, pw)

SpecLogin == Init /\ [][NextLogin]_vars

\* reserving, paying online and cancelling on one slot of the day; the timer
\* of every suspended payWithMercadoPago call fires (setTimeout, 650 ms), so
\* the continuation of each call is weakly fair
NextPay ==
    \/ Render
    \/ \E by \in UserIds, d \in Dates, t \in SlotInputs, c \in CourtIds :
          createReservation(by, d, t, c, 0)
    \/ \E id \in ReservationIds : payWithMercadoPagoStart(ownerOf(id), id)
    \/ \E call \in mpCalls : payWithMercadoPagoFinish(call)
    \/ \E id \in ReservationIds, reason \in CancelReasons :
          cancelReservation(ownerOf(id), id, reason)

\* the calls that can be suspended: a user, a reservation, the owner's email
PayCalls ==
    [by : 1..Len(Persisted.users),
     reservationId : 1..(MaxAudit - Len(Persisted.audit)),
     to : {Persisted.users[i].email : i \in DOMAIN Persisted.users} \cup {NULL}]

SpecPayFair ==
    /\ Init
    /\ [][NextPay]_vars
    /\ \A call \in PayCalls : WF_vars(payWithMercadoPagoFinish(call))

\* setConfig called with the id of any user, as the api object (handed to
\* every view) allows
NextAnyActor ==
    \/ Render
    \/ \E by \in UserIds, patch \in ConfigPatches : setConfig(by, patch)
    \/ \E by \in UserIds, d \in Dates, t \in SLOT_TIMES, c \in CourtIds :
          createReservation(by, d, t, c, 0)

SpecAnyActor == Init /\ [][NextAnyActor]_vars

\* the manual reservations of the administrator, the calls that throw
\* included, next to the bookings of the users
NextManual ==
    \/ Render
    \/ \E by \in UserIds, d \in Dates, t \in SLOT_TIMES, c \in CourtIds :
          createReservation(by, d, t, c, 0)
    \/ \E by \in AdminIds, u \in EligibleUserIds, d \in Dates, t \in SLOT_TIMES,
          c \in CourtIds, cash \in BOOLEAN :
          adminCreateManualReservation(by, u, d, t, c, cash)
    \/ \E by \in AdminIds, u \in EligibleUserIds, d \in Dates, t \in SLOT_TIMES,
          c \in CourtIds, cash \in BOOLEAN :
          adminCreateManualReservationThrows(by, u, d, t, c, cash)
    \/ \E by \in AdminIds, c \in CourtIds : setCourtActive(by, c, ~db.courts[c])

SpecManual == Init /\ [][NextManual]_vars

\* the reservation calls with any identifier as argument, the one the next
\* reservation would get (no reservation carries it) included
ReservationIdInputs == ReservationIds \cup {Len(store.reservations) + 1}

NextAnyId ==
    \/ Render
    \/ \E by \in UserIds, d \in Dates, t \in SLOT_TIMES, c \in CourtIds :
          createReservation(by, d, t, c, 0)
    \/ \E by \in UserIds, id \in ReservationIdInputs : payWithMercadoPagoStart(by, id)
    \/ \E call \in mpCalls : payWithMercadoPagoFinish(call)
    \/ \E by \in UserIds, id \in ReservationIdInputs :
          cancelReservation(by, id, "Cancelacion por usuario")

SpecAnyId == Init /\ [][NextAnyId]_vars

\* ------------------------------------------------------------- the claims
NonCancelled(r) == r.status # RES_STATUS.CANCELLED

SameSlot(r1, r2) == r1.dateISO = r2.dateISO /\ r1.time = r2.time

\* C1: for every (court, date, slot) at most one reservation has a status
\* other than Cancelled
C1_OnePerCourtSlot ==
    \A i, j \in DOMAIN store.reservations :
        (/\ i # j
         /\ store.reservations[i].courtId = store.reservations[j].courtId
         /\ SameSlot(store.reservations[i], store.reservations[j]))
        => ~(NonCancelled(store.reservations[i]) /\ NonCancelled(store.reservations[j]))

\* C2: of two createReservation calls validated against the same snapshot
\* and aimed at the same (court, date, slot) or the same (user, date, slot),
\* only one commits: a call never commits to a store in which the checks
\* would report SlotTaken or UserDoubleBooked
C2_SecondCallRejected ==
    [][\A by \in UserIds, d \in Dates, t \in SLOT_TIMES, c \in CourtIds :
          createReservation(by, d, t, c, 0)
          => createReservationError(store, by, d, t, c, 0)
                 \notin {"SlotTaken", "UserDoubleBooked"}]_vars

\* C3: for every (user, date, slot) at most one reservation of that user has
\* a status other than Cancelled, whatever the courts
C3_OnePerUserSlot ==
    \A i, j \in DOMAIN store.reservations :
        (/\ i # j
         /\ store.reservations[i].userId = store.reservations[j].userId
         /\ SameSlot(store.reservations[i], store.reservations[j]))
        => ~(NonCancelled(store.reservations[i]) /\ NonCancelled(store.reservations[j]))

\* C4: a reservation that is Cancelled or NoShow keeps that status in every
\* step
C4_TerminalStatuses ==
    [][\A i \in DOMAIN store.reservations :
          store.reservations[i].status \in {RES_STATUS.CANCELLED, RES_STATUS.NO_SHOW}
          => store'.reservations[i].status = store.reservations[i].status]_vars

\* C5: markNoShowAndRefund50 on a reservation that is not Confirmed returns
\* InvalidTransition and leaves the reservations and the payments as they were
C5_NoShowNeedsConfirmed ==
    [][\A by \in AdminIds, id \in ReservationIds :
          (/\ markNoShowAndRefund50(by, id)
           /\ store.reservations[findReservation(store, id)].status
                  # RES_STATUS.CONFIRMED)
          => /\ last'.err = "InvalidTransition"
             /\ store'.reservations = store.reservations
             /\ store'.payments = store.payments]_vars

\* C6: a refund, when a payment carries one, is half the payment amount
\* rounded to the nearest integer, the half rounded up, and the payment
\* amount is the price of its reservation
HasRefund(p) == p.meta.refund.percent # 0

C6_RefundIsHalfRounded ==
    \A i \in DOMAIN store.payments :
        HasRefund(store.payments[i])
        => /\ 2 * store.payments[i].meta.refund.amount
                  \in {store.payments[i].amount, store.payments[i].amount + 1}
           /\ \E r \in DOMAIN store.reservations :
                  /\ store.reservations[r].id = store.payments[i].reservationId
                  /\ store.reservations[r].price = store.payments[i].amount

\* a refund was made on an odd amount
C6_Witness ==
    \E i \in DOMAIN store.payments :
        HasRefund(store.payments[i]) /\ store.payments[i].amount % 2 = 1

\* C7: no step changes the price of an existing reservation or the amount of
\* an existing payment
C7_PriceFrozen ==
    [][/\ \A i \in DOMAIN store.reservations :
             /\ i \in DOMAIN store'.reservations
             /\ store'.reservations[i].price = store.reservations[i].price
       /\ \A i \in DOMAIN store.payments :
             /\ i \in DOMAIN store'.payments
             /\ store'.payments[i].amount = store.payments[i].amount]_vars

\* a reservation was created, the prices were changed, and then the
\* reservation was paid: its price is no longer the configured one
C7_Witness ==
    /\ Len(store.audit) >= 3
    /\ store.audit[1].action = "Pago"
    /\ store.audit[2].action = "Config"
    /\ store.audit[3].action = "Reserva"
    /\ \E i \in DOMAIN store.reservations :
          LET r == store.reservations[i]
              u == findUser(store, r.userId)
          IN  /\ u # 0
              /\ r.price # priceFor(store, u)
              /\ r.status = RES_STATUS.CONFIRMED

\* C8: the status of a payment changes only from Pending to Approved and
\* from Approved to RefundedPartial
C8_PaymentTransitions ==
    [][\A i \in DOMAIN store.payments :
          \/ store'.payments[i].status = store.payments[i].status
          \/ /\ store.payments[i].status = PAY_STATUS.PENDING
             /\ store'.payments[i].status = PAY_STATUS.APPROVED
          \/ /\ store.payments[i].status = PAY_STATUS.APPROVED
             /\ store'.payments[i].status = PAY_STATUS.REFUNDED_PARTIAL]_vars

\* C9: every reservation has exactly one payment and every payment belongs
\* to a reservation
C9_OnePaymentPerReservation ==
    /\ \A r \in DOMAIN store.reservations :
          Cardinality({p \in DOMAIN store.payments :
                          store.payments[p].reservationId = store.reservations[r].id}) = 1
    /\ \A p \in DOMAIN store.payments :
          \E r \in DOMAIN store.reservations :
              store.reservations[r].id = store.payments[p].reservationId

\* two reservations exist, one of them paid
C9_Witness ==
    /\ Len(store.reservations) >= 2
    /\ \E p \in DOMAIN store.payments : store.payments[p].status = PAY_STATUS.APPROVED

\* C10: a createReservation call that succeeds adds one reservation, Pending
\* payment, owned by the target user (the actor when none is given) and
\* created by the actor, and one Pending payment without method for the
\* same price; the earlier reservations and payments stay as they were
Created(owner, creator, dateISO, time, courtId) ==
    LET n == Len(store.reservations)
        m == Len(store.payments)
    IN  /\ Len(store'.reservations) = n + 1
        /\ SubSeq(store'.reservations, 1, n) = store.reservations
        /\ Len(store'.payments) = m + 1
        /\ SubSeq(store'.payments, 1, m) = store.payments
        /\ LET r == store'.reservations[n + 1]
               p == store'.payments[m + 1]
           IN  /\ r.status = RES_STATUS.PENDING_PAYMENT
               /\ r.userId = owner
               /\ r.createdBy = creator
               /\ r.dateISO = dateISO /\ r.time = time /\ r.courtId = courtId
               /\ r.id \notin ReservationIds
               /\ p.reservationId = r.id
               /\ p.status = PAY_STATUS.PENDING
               /\ p.method = NULL
               /\ p.amount = r.price
               /\ p.meta = EmptyMeta

C10_CreateAddsPendingPair ==
    [][\A d \in Dates, t \in SLOT_TIMES, c \in CourtIds :
          /\ \A by \in UserIds :
                createReservation(by, d, t, c, 0) => Created(by, by, d, t, c)
          /\ \A by \in AdminIds, u \in EligibleUserIds :
                adminCreateManualReservation(by, u, d, t, c, FALSE)
                => Created(u, by, d, t, c)]_vars

\* an administrator has just created a reservation for another user
C10_Witness ==
    /\ last.op = "adminCreateManualReservation"
    /\ last.err = "ok"
    /\ \E i \in DOMAIN store.reservations :
          /\ store.reservations[i].id = last.id
          /\ store.reservations[i].userId # store.reservations[i].createdBy
          /\ store.reservations[i].status = RES_STATUS.PENDING_PAYMENT

\* C11: the price of a reservation that createReservation adds is the
\* configured price, in the store it is committed to, for the tier of its
\* owner
C11_PriceAtCommit ==
    [][\A by \in UserIds, d \in Dates, t \in SLOT_TIMES, c \in CourtIds :
          createReservation(by, d, t, c, 0)
          => store'.reservations[Len(store'.reservations)].price
                 = priceFor(store, findUser(store, by))]_vars

\* C14: no createReservation call commits a reservation for a (court, date,
\* slot) that a block of the store covers
BlockedIn(st, courtId, dateISO, time) ==
    \E i \in DOMAIN st.blocks :
        /\ st.blocks[i].courtId = courtId
        /\ st.blocks[i].dateISO = dateISO
        /\ st.blocks[i].time = time

C14_NoCreateWhileBlocked ==
    [][\A by \in UserIds, d \in Dates, t \in SLOT_TIMES, c \in CourtIds :
          createReservation(by, d, t, c, 0) => ~BlockedIn(store, c, d, t)]_vars

\* C15: no createReservation call commits a reservation on a court that is
\* inactive in the store it commits to
C15_NoCreateOnInactiveCourt ==
    [][\A by \in UserIds, d \in Dates, t \in SLOT_TIMES, c \in CourtIds :
          createReservation(by, d, t, c, 0) => store.courts[c]]_vars

\* C16: setCourtActive changes the active flag of the court it names and
\* adds one audit entry of its actor; the other courts, the reservations,
\* the payments and everything else stay as they were
C16_SetCourtActiveFrame ==
    [][\A by \in AdminIds, c \in CourtIds, active \in BOOLEAN :
          setCourtActive(by, c, active)
          => /\ store'.courts[c] = active
             /\ \A o \in CourtIds \ {c} : store'.courts[o] = store.courts[o]
             /\ store'.reservations = store.reservations
             /\ store'.payments = store.payments
             /\ store'.users = store.users
             /\ store'.config = store.config
             /\ store'.blocks = store.blocks
             /\ store'.notifications = store.notifications
             /\ Len(store'.audit) = Len(store.audit) + 1
             /\ store'.audit[1].by = by
             /\ SubSeq(store'.audit, 2, Len(store'.audit)) = store.audit]_vars

\* a court holding a reservation that is not cancelled has just been
\* deactivated
C16_Witness ==
    /\ last.op = "setCourtActive"
    /\ \E i \in DOMAIN store.reservations :
          /\ NonCancelled(store.reservations[i])
          /\ ~store.courts[store.reservations[i].courtId]

\* C17: when the gateway delay of payWithMercadoPago ends on a reservation
\* that is Pending payment, the same step sets the payment to Mercado Pago,
\* Approved, with the gateway reference, and the reservation to Confirmed
StatusOf(st, reservationId) == st.reservations[findReservation(st, reservationId)].status

PaymentOf(st, reservationId) == st.payments[findPayment(st, reservationId)]

C17_PayOnlineConfirms ==
    [][\A call \in mpCalls :
          (/\ payWithMercadoPagoFinish(call)
           /\ StatusOf(store, call.reservationId) = RES_STATUS.PENDING_PAYMENT)
          => /\ StatusOf(store', call.reservationId) = RES_STATUS.CONFIRMED
             /\ PaymentOf(store', call.reservationId).method = "Mercado Pago"
             /\ PaymentOf(store', call.reservationId).status = PAY_STATUS.APPROVED
             /\ PaymentOf(store', call.reservationId).meta.mp # NULL
             /\ PaymentOf(store', call.reservationId).amount
                    = PaymentOf(store, call.reservationId).amount
             /\ last'.err = "ok"]_vars

\* the only reservation was created and then paid online
C17_Witness ==
    /\ last.op = "payWithMercadoPago"
    /\ Len(store.reservations) = 1
    /\ Len(store.audit) = Len(Persisted.audit) + 2
    /\ store.reservations[1].status = RES_STATUS.CONFIRMED
    /\ store.payments[1].method = "Mercado Pago"

\* C18: payWithMercadoPago on a reservation that is not Pending payment
\* returns InvalidTransition and leaves the reservations and the payments as
\* they were
C18_PayOnlineNeedsPending ==
    [][\A call \in mpCalls :
          (/\ payWithMercadoPagoFinish(call)
           /\ StatusOf(store, call.reservationId) # RES_STATUS.PENDING_PAYMENT)
          => /\ last'.err = "InvalidTransition"
             /\ store'.reservations = store.reservations
             /\ store'.payments = store.payments]_vars

\* C19: a payWithMercadoPago call whose reservation was cancelled during the
\* gateway delay does not confirm the reservation nor approve its payment
C19_PayAfterCancelWritesNothing ==
    [][\A call \in mpCalls :
          (/\ payWithMercadoPagoFinish(call)
           /\ StatusOf(store, call.reservationId) = RES_STATUS.CANCELLED
           /\ PaymentOf(store, call.reservationId).status = PAY_STATUS.PENDING)
          => /\ StatusOf(store', call.reservationId) # RES_STATUS.CONFIRMED
             /\ PaymentOf(store', call.reservationId).status # PAY_STATUS.APPROVED]_vars

\* C20: cancelReservation and payWithMercadoPago with an identifier that no
\* reservation of the store carries return NotFound and leave the store
\* (reservations, payments, audit log, notifications) as it was
C20_UnknownIdNotFound ==
    [][ /\ \A by \in UserIds, id \in ReservationIdInputs :
              (/\ cancelReservation(by, id, "Cancelacion por usuario")
               /\ findReservation(store, id) = 0)
              => (last'.err = "NotFound" /\ store' = store)
        /\ \A call \in mpCalls :
              (/\ payWithMercadoPagoFinish(call)
               /\ findReservation(store, call.reservationId) = 0)
              => (last'.err = "NotFound" /\ store' = store)]_vars

\* the checks of createReservation in the order the claim gives, and those
\* that fail for a call, each taken on its own
CheckOrder ==
    <<"InvalidUser", "EmailNotValidated", "PhoneNotValidated", "PastDate", "TooFarAhead",
      "ResourceUnavailable", "SlotBlocked", "SlotTaken", "UserDoubleBooked">>

TargetUser(snap, by, forUserId) == findUser(snap, IF forUserId # 0 THEN forUserId ELSE by)

FailingChecks(snap, by, dateISO, time, courtId, forUserId) ==
    LET u == TargetUser(snap, by, forUserId)
    IN  {k \in DOMAIN CheckOrder :
            CASE k = 1 -> u = 0
              [] k = 2 -> u # 0 /\ snap.config.requireEmailValidation
                                /\ ~snap.users[u].isEmailValidated
              [] k = 3 -> u # 0 /\ snap.config.requirePhoneValidation
                                /\ ~snap.users[u].isPhoneValidated
              [] k = 4 -> dateISO < Today
              [] k = 5 -> dateISO > Today + MaxAdvanceDays
              [] k = 6 -> \/ courtId \notin DOMAIN snap.courts
                          \/ ~snap.courts[courtId]
              [] k = 7 -> BlockedIn(snap, courtId, dateISO, time)
              [] k = 8 -> \E i \in DOMAIN snap.reservations :
                             /\ NonCancelled(snap.reservations[i])
                             /\ snap.reservations[i].courtId = courtId
                             /\ snap.reservations[i].dateISO = dateISO
                             /\ snap.reservations[i].time = time
              [] k = 9 -> /\ u # 0
                          /\ \E i \in DOMAIN snap.reservations :
                                /\ NonCancelled(snap.reservations[i])
                                /\ snap.reservations[i].userId = snap.users[u].id
                                /\ snap.reservations[i].dateISO = dateISO
                                /\ snap.reservations[i].time = time}

\* C12: on every snapshot and for every argument, the error a createReservation
\* call throws is the failing check that comes first in the order InvalidUser, EmailNotValidated, PhoneNotValidated,
\* PastDate, TooFarAhead, ResourceUnavailable, SlotBlocked, SlotTaken,
\* UserDoubleBooked, however many checks fail; the call passes when none
\* fails
C12_FirstFailingCheck ==
    \A by \in UserIds, d \in DateInputs, t \in SlotInputs, c \in CourtInputs,
       f \in ForUserIdInputs :
       LET failing == FailingChecks(db, by, d, t, c, f)
           err == createReservationError(db, by, d, t, c, f)
       IN  IF failing = {} THEN err = "ok"
           ELSE \E k \in failing : err = CheckOrder[k] /\ \A j \in failing : k <= j

\* a call for which the block, the reservation-conflict and the double-booking
\* checks all fail has thrown SlotBlocked
C12_Witness ==
    /\ last.op = "createReservation"
    /\ last.err = "SlotBlocked"
    /\ \E by \in UserIds, d \in DateInputs, t \in SlotInputs, c \in CourtInputs :
          /\ createReservationError(db, by, d, t, c, 0) = last.err
          /\ FailingChecks(db, by, d, t, c, 0) = {7, 8, 9}

\* C13: with every other check passing, createReservation passes exactly for
\* the dates from today to today + 7; an earlier date throws PastDate, a later
\* one TooFarAhead
C13_DateWindow ==
    \A by \in UserIds, d \in DateInputs, t \in SlotInputs, c \in CourtInputs,
       f \in ForUserIdInputs :
       LET err == createReservationError(db, by, d, t, c, f)
       IN  FailingChecks(db, by, d, t, c, f) \subseteq {4, 5}
           => /\ err = "ok" <=> (Today <= d /\ d <= Today + 7)
              /\ d < Today => err = "PastDate"
              /\ d > Today + 7 => err = "TooFarAhead"

\* a reservation stands on the last day of the window and a call for the day
\* after it has thrown TooFarAhead
C13_Witness ==
    /\ last.op = "createReservation"
    /\ last.err = "TooFarAhead"
    /\ \E i \in DOMAIN store.reservations : store.reservations[i].dateISO = Today + 7

\* C21: a createReservation call that returns an error leaves the store as it
\* was: no reservation, payment, audit entry or notification is added
C21_FailedCreateChangesNothing ==
    [][(last'.op = "createReservation" /\ last'.err # "ok")
       => /\ store' = store
          /\ store'.reservations = store.reservations
          /\ store'.payments = store.payments
          /\ store'.audit = store.audit
          /\ store'.notifications = store.notifications]_vars

\* a call has thrown SlotTaken on a store that holds a reservation
C21_Witness ==
    /\ last.op = "createReservation"
    /\ last.err = "SlotTaken"
    /\ store.reservations # <<>>

\* the store a payWithMercadoPago call of the same actor, on the same
\* snapshot, would leave
PaidOnline(st, snap, by, reservationId) ==
    LET s1 == audit(payWithMercadoPagoMutator(st, reservationId), by, "Pago")
        to == ownerEmail(snap, reservationId)
    IN  IF to = NULL THEN s1 ELSE notify(s1, "Pago confirmado", to, reservationId)

\* C22: registerCashPayment on a reservation that is Pending payment sets the
\* payment to Approved and the reservation to Confirmed, adds a "Pago" audit
\* entry of the administrator and the notification, as payWithMercadoPago
\* does; the payment method is cash and the metadata hold the administrator
C22_CashLikeOnline ==
    [][\A by \in AdminIds, id \in ReservationIds :
          (/\ registerCashPayment(by, id)
           /\ StatusOf(store, id) = RES_STATUS.PENDING_PAYMENT)
          => LET online == PaidOnline(store, db, by, id)
                 p == findPayment(store, id)
             IN  /\ StatusOf(store', id) = RES_STATUS.CONFIRMED
                 /\ PaymentOf(store', id).status = PAY_STATUS.APPROVED
                 /\ PaymentOf(store', id).method = "Efectivo (recepcion)"
                 /\ PaymentOf(store', id).meta.cashBy = by
                 /\ PaymentOf(store', id).meta.mp = NULL
                 /\ store'.audit = <<[by |-> by, action |-> "Pago"]>> \o store.audit
                 /\ store'.reservations = online.reservations
                 /\ store'.audit = online.audit
                 /\ store'.notifications = online.notifications
                 /\ store'.users = online.users
                 /\ \A q \in DOMAIN store.payments :
                       /\ store'.payments[q].status = online.payments[q].status
                       /\ store'.payments[q].amount = online.payments[q].amount
                       /\ q # p => store'.payments[q] = online.payments[q]]_vars

\* the only reservation was created and then paid in cash, its owner notified
C22_Witness ==
    /\ last.op = "registerCashPayment"
    /\ Len(store.reservations) = 1
    /\ Len(store.audit) = Len(Persisted.audit) + 2
    /\ store.payments[1].method = "Efectivo (recepcion)"
    /\ store.notifications[1].event = "Pago confirmado"

\* the store holds a "Pago confirmado" notification for the reservation,
\* addressed to its owner
OwnerNotifiedOfPayment(st, reservationId) ==
    LET u == findUser(st, st.reservations[findReservation(st, reservationId)].userId)
    IN  \E n \in DOMAIN st.notifications :
           /\ st.notifications[n].event = "Pago confirmado"
           /\ st.notifications[n].ref = reservationId
           /\ st.notifications[n].to = st.users[u].email

\* C23: every step that approves a payment leaves a "Pago confirmado"
\* notification to the owner of the reservation: the end of payWithMercadoPago,
\* registerCashPayment, and adminCreateManualReservation with markPaidCash
C23_ApprovalNotifiesOwner ==
    [][\A id \in DOMAIN store'.payments :
          LET rid == store'.payments[id].reservationId
          IN  (/\ store'.payments[id].status = PAY_STATUS.APPROVED
               /\ last'.op \in {"payWithMercadoPago", "registerCashPayment",
                                "adminCreateManualReservation"}
               /\ last'.id = rid
               /\ last' # last \/ store' # store)
              => OwnerNotifiedOfPayment(store', rid)]_vars

\* C24: when adminCreateManualReservation returns normally the reservation it
\* created is Confirmed with an Approved cash payment if markPaidCash, and
\* Pending payment with a Pending payment if not (never Pending after a cash
\* step); when createReservation throws, the error reaches the caller and
\* nothing is written, no payment approved
C24_ManualReservation ==
    [][ /\ \A by \in AdminIds, u \in EligibleUserIds, d \in Dates, t \in SLOT_TIMES,
              c \in CourtIds, cash \in BOOLEAN :
              adminCreateManualReservation(by, u, d, t, c, cash)
              => LET id == Len(store.reservations) + 1
                 IN  /\ last' = [op |-> "adminCreateManualReservation", err |-> "ok",
                                 id |-> id]
                     /\ Len(store'.reservations) = id
                     /\ store'.reservations[id].userId = u
                     /\ IF cash
                        THEN /\ StatusOf(store', id) = RES_STATUS.CONFIRMED
                             /\ PaymentOf(store', id).status = PAY_STATUS.APPROVED
                             /\ PaymentOf(store', id).method = "Efectivo (recepcion)"
                        ELSE /\ StatusOf(store', id) = RES_STATUS.PENDING_PAYMENT
                             /\ PaymentOf(store', id).status = PAY_STATUS.PENDING
        /\ (last'.op = "adminCreateManualReservation" /\ last'.err # "ok")
            => store' = store]_vars

\* a manual reservation paid in cash stands and a later manual call has thrown
C24_Witness ==
    /\ last.op = "adminCreateManualReservation"
    /\ last.err = "SlotTaken"
    /\ \E i \in DOMAIN store.reservations :
          /\ store.reservations[i].createdBy # store.reservations[i].userId
          /\ store.reservations[i].status = RES_STATUS.CONFIRMED
          /\ store.payments[findPayment(store, store.reservations[i].id)].method
                = "Efectivo (recepcion)"

\* C25: no two users of the store have the same e-mail or the same DNI
C25_UniqueEmailAndDni ==
    \A i, j \in DOMAIN store.users :
        i # j => /\ store.users[i].email # store.users[j].email
                 /\ store.users[i].dni # store.users[j].dni

\* C26: no two users of the store have the same phone
C26_UniquePhone ==
    \A i, j \in DOMAIN store.users :
        i # j => store.users[i].phone # store.users[j].phone

\* the answer of the membership lookup for a DNI: its last character is an
\* even digit
EvenDigits == {"0", "2", "4", "6", "8"}
ActiveMember(dni) == dni # <<>> /\ dni[Len(dni)] \in EvenDigits

\* C27: every step leaves the tier of every existing user as it was, and a
\* user that a step adds has the tier Socio when the membership lookup answers
\* true for its DNI and No Socio when it answers false
C27_TierSetOnce ==
    [][\A i \in DOMAIN store'.users :
          IF i \in DOMAIN store.users
          THEN store'.users[i].userType = store.users[i].userType
          ELSE store'.users[i].userType
                  = IF ActiveMember(store'.users[i].dni) THEN "Socio" ELSE "No Socio"]_vars

\* a Socio and a No Socio have registered, and one of the first users has
\* validated a contact since
C27_Witness ==
    /\ Len(store.users) = 4
    /\ {store.users[3].userType, store.users[4].userType} = {"Socio", "No Socio"}
    /\ last.op = "validateAccount"

C30_ValidateAccountIdempotent ==
    [][\A by \in UserIdInputs, flags \in FlagInputs :
          validateAccount(by, flags)
          => LET u == findUser(store, by)
             IN  IF u = 0
                 THEN last'.err = "UserNotFound" /\ store'.users = store.users
                 ELSE /\ "emailOk" \in DOMAIN flags
                         => store'.users[u].isEmailValidated = flags.emailOk
                      /\ "emailOk" \notin DOMAIN flags
                         => store'.users[u].isEmailValidated = store.users[u].isEmailValidated
                      /\ "phoneOk" \in DOMAIN flags
                         => store'.users[u].isPhoneValidated = flags.phoneOk
                      /\ "phoneOk" \notin DOMAIN flags
                         => store'.users[u].isPhoneValidated = store.users[u].isPhoneValidated
                      /\ validateAccountMutator(store', by, flags).users = store'.users]_vars

\* the password policy of the claim: six characters or more, an upper-case
\* letter, a character that is neither a letter nor a digit
StrongPassword(password) ==
    LET chars == CharsOf(password)
    IN  /\ Len(chars) >= 6
        /\ \E i \in DOMAIN chars : chars[i] \in UpperCase
        /\ \E i \in DOMAIN chars :
              chars[i] \notin UpperCase \cup LowerCase \cup
                              {"0", "1", "2", "3", "4", "5", "6", "7", "8", "9"}

InvalidInput(email, phone, dni) ==
    \/ Len(trim(dni)) < 6
    \/ ~includes(CharsOf(email), "@")
    \/ trim(CharsOf(phone)) = <<>>

Duplicate(snap, email, dni) ==
    \E u \in DOMAIN snap.users :
        \/ CharsOf(snap.users[u].email) = toLowerCase(trim(CharsOf(email)))
        \/ snap.users[u].dni = trim(dni)

\* C28: on every snapshot and for every form, register throws an input error
\* exactly when an input is invalid, WeakPassword exactly when the inputs are
\* valid and the password fails the policy, DuplicateUser exactly when both
\* pass and a user has the e-mail or the DNI, and passes otherwise; "abc123"
\* fails the policy and "Abc123!" passes it
C28_PasswordPolicyAndOrder ==
    /\ ~StrongPassword("abc123")
    /\ StrongPassword("Abc123!")
    /\ \A e \in EmailInputs, ph \in PhoneInputs, dni \in DniInputs, pw \in PasswordInputs :
          LET err == registerError(db, e, ph, dni, pw)
          IN  /\ err \in {"InvalidDni", "InvalidEmail", "PhoneRequired"}
                 <=> InvalidInput(e, ph, dni)
              /\ err = "WeakPassword"
                 <=> (~InvalidInput(e, ph, dni) /\ ~StrongPassword(pw))
              /\ err = "DuplicateUser"
                 <=> (/\ ~InvalidInput(e, ph, dni)
                      /\ StrongPassword(pw)
                      /\ Duplicate(db, e, dni))
              /\ err = "ok"
                 <=> (/\ ~InvalidInput(e, ph, dni)
                      /\ StrongPassword(pw)
                      /\ ~Duplicate(db, e, dni))

\* a user has registered and a later call has thrown WeakPassword
C28_Witness ==
    /\ Len(store.users) >= 3
    /\ last.op = "register"
    /\ last.err = "WeakPassword"

\* C31: cancelReservation on a reservation that is already Cancelled returns
\* normally and leaves the store as it was: status, reason, audit log and
\* notifications
C31_RecancelIsNoOp ==
    [][\A by \in UserIds, id \in ReservationIds, reason \in CancelReasons :
          (/\ cancelReservation(by, id, reason)
           /\ StatusOf(store, id) = RES_STATUS.CANCELLED)
          => (last'.err = "ok" /\ store' = store)]_vars

\* old is what is left of new after the entries prepended to it
KeptBehind(old, new) ==
    /\ Len(new) >= Len(old)
    /\ SubSeq(new, Len(new) - Len(old) + 1, Len(new)) = old

\* C32: every step keeps the audit entries and the notifications it finds,
\* unchanged and in their order; new ones are only put in front of them
C32_AppendOnly ==
    [][/\ KeptBehind(store.audit, store'.audit)
       /\ KeptBehind(store.notifications, store'.notifications)]_vars

\* three operations were audited and two of them notified the same user
C32_Witness ==
    /\ Len(store.audit) = Len(Persisted.audit) + 3
    /\ Len(store.notifications) >= Len(Persisted.notifications) + 4
    /\ store.notifications[1].to = store.notifications[3].to
    /\ store.notifications[1].event = store.notifications[3].event

\* C36: a reservation is Pending payment only with its payment Pending, and
\* Confirmed only with its payment Approved
C36_StatusCoupling ==
    \A i \in DOMAIN store.reservations :
        LET r == store.reservations[i]
            p == PaymentOf(store, r.id)
        IN  /\ r.status = RES_STATUS.PENDING_PAYMENT => p.status = PAY_STATUS.PENDING
            /\ r.status = RES_STATUS.CONFIRMED => p.status = PAY_STATUS.APPROVED

\* a reservation has just been paid and is Confirmed with its payment
\* Approved, next to one that is Pending payment
C36_Witness ==
    /\ last.op \in {"payWithMercadoPago", "registerCashPayment"}
    /\ \E i, j \in DOMAIN store.reservations :
          /\ store.reservations[i].status = RES_STATUS.CONFIRMED
          /\ PaymentOf(store, store.reservations[i].id).status = PAY_STATUS.APPROVED
          /\ store.reservations[j].status = RES_STATUS.PENDING_PAYMENT

C39_ReservationIdentity ==
    [][/\ Len(store'.reservations) >= Len(store.reservations)
       /\ \A i \in DOMAIN store.reservations :
             /\ store'.reservations[i].id = store.reservations[i].id
             /\ store'.reservations[i].userId = store.reservations[i].userId
             /\ store'.reservations[i].createdBy = store.reservations[i].createdBy
             /\ store'.reservations[i].dateISO = store.reservations[i].dateISO
             /\ store'.reservations[i].time = store.reservations[i].time
             /\ store'.reservations[i].courtId = store.reservations[i].courtId]_vars

\* a reservation went through payment, cancellation or no-show and another
\* was created after it
C39_Witness ==
    /\ Len(store.reservations) >= 2
    /\ store.reservations[1].status # RES_STATUS.PENDING_PAYMENT
    /\ last.op \in {"cancelReservation", "markNoShowAndRefund50"}

\* no reservation of the store other than cancelled ones is on the tuple
NoLiveReservation(st, courtId, dateISO, time) ==
    \A i \in DOMAIN st.reservations :
        \/ st.reservations[i].status = RES_STATUS.CANCELLED
        \/ st.reservations[i].courtId # courtId
        \/ st.reservations[i].dateISO # dateISO
        \/ st.reservations[i].time # time

\* C38: once the snapshot is the store, a createReservation call passes for
\* every (court, date, slot) that holds only cancelled reservations and no
\* block, for every user for whom the other checks pass
C38_CancelFreesSlot ==
    db = store
    => \A by \in UserIds, d \in Dates, t \in SLOT_TIMES, c \in CourtIds :
          (/\ NoLiveReservation(store, c, d, t)
           /\ ~BlockedIn(store, c, d, t)
           /\ FailingChecks(db, by, d, t, c, 0) \subseteq {7, 8})
          => createReservationError(db, by, d, t, c, 0) = "ok"

\* a reservation was cancelled, the cancellation was rendered, and its slot
\* was booked again
C38_Witness ==
    /\ Len(store.reservations) = 2
    /\ store.reservations[1].status = RES_STATUS.CANCELLED
    /\ SameSlot(store.reservations[1], store.reservations[2])
    /\ store.reservations[1].courtId = store.reservations[2].courtId
    /\ store.reservations[2].status # RES_STATUS.CANCELLED
    /\ Len(db.reservations) = 1
    /\ db.reservations[1].status = RES_STATUS.CANCELLED
    /\ last.op = "createReservation"

\* C34: a step changes the config only when it is a setConfig call of a user
\* whose role is admin; a setConfig call of another user leaves it as it was
C34_ConfigOnlyByAdmin ==
    [][/\ store'.config # store.config => last'.op = "setConfig"
       /\ \A by \in UserIds, patch \in ConfigPatches :
             (setConfig(by, patch) /\ by \notin AdminIds)
             => store'.config = store.config]_vars

\* what the operations mutate: everything of the store but its two logs
Data(st) == <<st.users, st.config, st.courts, st.blocks, st.reservations, st.payments>>

\* the step puts one audit entry of this actor and action in front of the log
AuditedBy(by, action) ==
    store'.audit = <<[by |-> by, action |-> action]>> \o store.audit

\* C33: a step that mutates the store puts, in the same step, one audit entry
\* in front of the log, and the entry of each operation carries its actor
\* (for register, the user it creates), so that no mutation of another
\* operation is committed between a mutation and its audit entry
C33_MutationsAudited ==
    [][/\ Data(store') # Data(store) => Tail(store'.audit) = store.audit
       /\ \A call \in regCalls :
             registerFinish(call) => AuditedBy(Len(store.users) + 1, "Register")
       /\ \A by \in UserIds, flags \in FlagInputs :
             validateAccount(by, flags) => AuditedBy(by, "Account")
       /\ \A by \in UserIds, patch \in ConfigPatches :
             setConfig(by, patch) => AuditedBy(by, "Config")
       /\ \A by \in UserIds, c \in CourtIds :
             setCourtActive(by, c, ~db.courts[c]) => AuditedBy(by, "Court")
       /\ \A by \in UserIds, c \in CourtIds, d \in Dates, t \in SlotInputs,
             reason \in BlockReasons :
             addBlock(by, c, d, t, reason) => AuditedBy(by, "Block")
       /\ \A by \in UserIds, i \in DOMAIN store.blocks :
             removeBlock(by, store.blocks[i].id) => AuditedBy(by, "Unblock")
       /\ \A by \in UserIds, d \in Dates, t \in SlotInputs, c \in CourtIds :
             createReservation(by, d, t, c, 0) => AuditedBy(by, "Reserva")
       /\ \A call \in mpCalls :
             payWithMercadoPagoFinish(call) => AuditedBy(call.by, "Pago")
       /\ \A by \in UserIds, id \in ReservationIds :
             /\ registerCashPayment(by, id) => AuditedBy(by, "Pago")
             /\ markNoShowAndRefund50(by, id) => AuditedBy(by, "NoShow")
             /\ \A reason \in CancelReasons :
                   cancelReservation(by, id, reason) => AuditedBy(by, "Reserva")]_vars

\* a member registered, an administrator switched a court off and a member
\* reserved: the three entries are in the log, the newest first
C33_Witness ==
    /\ Len(store.audit) = Len(Persisted.audit) + 3
    /\ store.audit[1].action = "Reserva"
    /\ store.audit[2].action = "Court"
    /\ store.audit[3].action = "Register"
    /\ store.audit[3].by = Len(Persisted.users) + 1
    /\ store.audit[2].by \in AdminIds

\* the users of the rendered snapshot whose email is the input, trimmed and
\* in lower case
Matching(email) ==
    {i \in DOMAIN db.users : CharsOf(db.users[i].email) = toLowerCase(trim(CharsOf(email)))}

\* C35: a login fails with UserNotFound exactly when no user (of the snapshot
\* the call reads) has the normalized email, and with InvalidCredentials
\* exactly when that user's stored credential differs from the password; a
\* failed login leaves the store as it was, and a successful one changes
\* nothing but the audit log, which gains one Login entry of the user
C35_LoginFrame ==
    [][\A e \in EmailInputs, pw \in PasswordInputs :
          /\ doLoginThrows(e, pw)
             => /\ store' = store
                /\ (last'.err = "UserNotFound") <=> (Matching(e) = {})
                /\ (last'.err = "InvalidCredentials")
                   <=> (\E i \in Matching(e) : db.users[i].passwordHash # pw)
          /\ doLogin(e, pw)
             => \E i \in Matching(e) :
                   /\ db.users[i].passwordHash = pw
                   /\ last'.id = db.users[i].id
                   /\ store' = [store EXCEPT
                                   !.audit = <<[by |-> db.users[i].id, action |-> "Login"]>>
                                             \o @]]_vars

\* the user who registered logged in, and a later login failed on the password
C35_Witness ==
    /\ last.op = "loginEmailPassword"
    /\ last.err = "InvalidCredentials"
    /\ store.audit[1] = [by |-> Len(Persisted.users) + 1, action |-> "Login"]
    /\ store.audit[2].action = "Register"

\* C40: every suspended payWithMercadoPago call is eventually resumed and
\* returns, and the step that resumes it on a reservation still Pending
\* payment leaves the reservation Confirmed and its payment Approved
C40_PayCompletes ==
    /\ \A call \in PayCalls :
          (call \in mpCalls)
          ~> (call \notin mpCalls /\ last.op = "payWithMercadoPago"
              /\ last.id = call.reservationId)
    /\ [][\A call \in mpCalls :
             (/\ call \notin mpCalls'
              /\ StatusOf(store, call.reservationId) = RES_STATUS.PENDING_PAYMENT)
             => /\ StatusOf(store', call.reservationId) = RES_STATUS.CONFIRMED
                /\ PaymentOf(store', call.reservationId).status = PAY_STATUS.APPROVED]_vars

\* the one suspended call returned: the reservation it found Pending payment
\* is Confirmed, its payment Approved, and no call is left suspended
C40_Witness ==
    /\ mpCalls = {}
    /\ last.op = "payWithMercadoPago"
    /\ Len(store.reservations) = 1
    /\ store.reservations[1].status = RES_STATUS.CONFIRMED
    /\ store.payments[1].status = PAY_STATUS.APPROVED
    /\ store.audit[1].action = "Pago"

====
